---- MODULE Spec2Model ----
(***************************************************************************)
(* Model of emit's compile-time expansion, ct::emit::expand_tokens         *)
(* (src/ct/src/emit.rs).  One behaviour is one macro invocation: the       *)
(* parsed input (field-values before the template, the template's holes,   *)
(* field-values after the template) is fixed by Init, and the actions are  *)
(* the steps of expand_tokens in program order.  A panic of the macro      *)
(* (expect, assert!, assert_eq!, panic!) ends the run with no tokens.      *)
(***************************************************************************)
EXTENDS Integers, Sequences, FiniteSets, TLC

VARIABLES
    input,                  \* the macro input as Template::parse2 sees it
    pc,                     \* position in expand_tokens
    panic,                  \* the panic message, "" while none
    extra_field_values,     \* BTreeMap: key -> field-value outside the template
    hole_index,             \* cursor of `for fv in template.template_field_values()`
    field_values,           \* Vec of capture expressions, rendering order
    field_bindings,         \* Vec of __tmp identifiers, rendering order
    sorted_field_bindings,  \* BTreeMap: key -> __tmp identifier
    field_index,            \* usize counter behind __tmp<n>
    output                  \* the token streams returned (none, or one)

vars == <<input, pc, panic, extra_field_values, hole_index, field_values,
          field_bindings, sorted_field_bindings, field_index, output>>

----------------------------------------------------------------------------
(* Strings are sequences of byte values; String's Ord is bytewise           *)
(* lexicographic, a proper prefix sorting first.                            *)

a == <<97>>
b == <<98>>
c == <<99>>
d == <<100>>
e == <<101>>
f == <<102>>
x == <<120>>
ab == <<97, 98>>
err == <<101, 114, 114>>
log == <<108, 111, 103>>
work == <<119, 111, 114, 107>>
id == <<105, 100>>
description == <<100, 101, 115, 99, 114, 105, 112, 116, 105, 111, 110>>
target == <<116, 97, 114, 103, 101, 116>>

RECURSIVE StrLess(_, _)
StrLess(s, t) ==
    IF s = <<>> THEN t # <<>>
    ELSE IF t = <<>> THEN FALSE
    ELSE IF Head(s) # Head(t) THEN Head(s) < Head(t)
    ELSE StrLess(Tail(s), Tail(t))

(* Option<T>: None is the empty sequence, Some(v) the one-element one.      *)
None == <<>>
Some(v) == <<v>>

----------------------------------------------------------------------------
(* syn::FieldValue as expand_tokens reads it: the member (key), the value   *)
(* expression and the attributes.  A bare `a` is the field-value whose      *)
(* expression is the path `a`.                                              *)

Unnamed == <<>>             \* Member::Unnamed (`0: expr`): no string key

\* Expr::Path; segments is the path's identifiers (`a`, or `m::a`)
Path(segments) == [kind |-> "path", segments |-> segments, token |-> 0]
\* any other Expr (a literal, a call, a field access), told apart by token
Other(kind, token) == [kind |-> kind, segments |-> <<>>, token |-> token]

FieldValue(attrs, member, expr) == [attrs |-> attrs, member |-> member, expr |-> expr]
Bare(attrs, ident) == FieldValue(attrs, ident, Path(<<ident>>))

\* FieldValueExt::key_name: the member's identifier as a String, if named
key_name(fv) == IF fv.member = Unnamed THEN None ELSE Some(fv.member)

\* syn::Path::get_ident: the identifier of a single-segment path
get_ident(path) == IF Len(path.segments) = 1 THEN Some(path.segments[1]) ELSE None

\* Template::parse2 output read through before_template_field_values,
\* template_field_values and after_template_field_values; ok = FALSE is Err
Template(before, holes, after) ==
    [ok |-> TRUE, before |-> before, holes |-> holes, after |-> after]
ParseFailure == [ok |-> FALSE, before |-> <<>>, holes |-> <<>>, after |-> <<>>]

----------------------------------------------------------------------------
(* BTreeMap<String, V>: a function on the set of keys present; iteration    *)
(* (keys(), values(), into_iter()) visits keys in ascending order.          *)

EmptyMap == [k \in {} |-> 0]

\* BTreeMap::insert: the map afterwards
MapInsert(m, k, v) == [y \in DOMAIN m \cup {k} |-> IF y = k THEN v ELSE m[y]]

\* mutant: insert reports no previous value
MapPreviousLost(m, k) == None

\* BTreeMap::insert: the previous value returned
MapPrevious(m, k) == IF k \in DOMAIN m THEN Some(m[k]) ELSE None

\* BTreeMap::remove: the value removed, and the map afterwards
MapRemoved(m, k) == IF k \in DOMAIN m THEN Some(m[k]) ELSE None
MapRemove(m, k) == [y \in DOMAIN m \ {k} |-> m[y]]

\* mutant: iteration starts from the greatest key
FirstKeyDescending(keys) == CHOOSE k \in keys : \A y \in keys \ {k} : StrLess(y, k)

\* the first key in iteration order
FirstKey(keys) == CHOOSE k \in keys : \A y \in keys \ {k} : StrLess(k, y)

RECURSIVE SortedKeys(_)
SortedKeys(keys) ==
    IF keys = {} THEN <<>>
    ELSE LET k == FirstKey(keys) IN <<k>> \o SortedKeys(keys \ {k})

MapKeys(m) == SortedKeys(DOMAIN m)
MapValues(m) == LET ks == MapKeys(m) IN [i \in 1..Len(ks) |-> m[ks[i]]]

\* Iterator::collect into a BTreeMap: entries inserted in iteration order
RECURSIVE Collect(_, _)
Collect(m, entries) ==
    IF entries = <<>> THEN m
    ELSE Collect(MapInsert(m, Head(entries)[1], Head(entries)[2]), Tail(entries))

----------------------------------------------------------------------------
(* The inputs explored.                                                     *)

MaxFields == 4              \* field-values of one invocation, holes included

Names == {a, b}
OrderNames == {a, ab, b}

\* a hole of the template: `{k}`, `{#[debug] k}`, `{k: x}` or `{k: 42}`
HoleChoices ==
    {Bare(<<>>, k) : k \in Names}
    \cup {Bare(<<"debug">>, k) : k \in Names}
    \cup {FieldValue(<<>>, k, Path(<<x>>)) : k \in Names}
    \cup {FieldValue(<<>>, k, Other("lit", 42)) : k \in Names}

\* a field-value after the template: `k`, `#[debug] k` or `k: 42`
ExtraChoices ==
    {Bare(<<>>, k) : k \in Names}
    \cup {Bare(<<"debug">>, k) : k \in Names}
    \cup {FieldValue(<<>>, k, Other("lit", 42)) : k \in Names}

\* the field-values before the template: none, `log`, or `target: log`
BeforeChoices ==
    {<<>>, <<Bare(<<>>, log)>>, <<FieldValue(<<>>, target, Path(<<log>>))>>}

SeqsOf(S, n) == [1..n -> S]

\* every invocation of at most MaxFields field-values, holes included
IsBoundedInput(i) ==
    \E bf \in BeforeChoices :
        \E n \in 0..(MaxFields - Len(bf)) : \E m \in 0..(MaxFields - Len(bf) - n) :
            \E hs \in SeqsOf(HoleChoices, n), af \in SeqsOf(ExtraChoices, m) :
                i = Template(bf, hs, af)

\* keys that are prefixes of one another, in every order: holes `{k: 42}`
\* and field-values `k` after the template
IsOrderingInput(i) ==
    \E n \in 0..MaxFields : \E m \in 0..(MaxFields - n) :
        \E hs \in SeqsOf({FieldValue(<<>>, k, Other("lit", 42)) : k \in OrderNames}, n),
           af \in SeqsOf({Bare(<<>>, k) : k \in OrderNames}, m) :
            i = Template(<<>>, hs, af)

\* inputs the parser or key_name rejects, and paths that are no identifier
RejectedInputs ==
    {ParseFailure}
    \cup {Template(<<>>, hs, <<FieldValue(<<>>, Unnamed, Other("lit", 42))>>) :
            hs \in SeqsOf(HoleChoices, 1)}
    \cup {Template(<<>>, <<h, FieldValue(<<>>, Unnamed, Other("lit", 42))>>, af) :
            h \in HoleChoices, af \in SeqsOf(ExtraChoices, 1)}
    \cup {Template(<<>>, <<FieldValue(<<>>, k, Path(<<x, k>>))>>, af) :
            k \in Names, af \in SeqsOf(ExtraChoices, 1)}

\* the invocations of tests::expand_emit and of the ui tests
TestCases ==
    { Template(<<>>,
               <<FieldValue(<<>>, b, Other("lit", 17)), Bare(<<>>, a),
                 Bare(<<"with_debug">>, c), FieldValue(<<>>, d, Other("call", 1))>>,
               <<>>),
      Template(<<Bare(<<>>, log)>>, <<Bare(<<>>, a)>>,
               <<FieldValue(<<>>, a, Other("lit", 42))>>),
      Template(<<>>, <<>>,
               <<Bare(<<>>, a), FieldValue(<<>>, b, Other("lit", 17)),
                 Bare(<<"as_debug">>, c), FieldValue(<<>>, d, Other("call", 1)),
                 FieldValue(<<>>, err, Path(<<e>>)), Bare(<<"as_sval">>, f)>>),
      Template(<<>>,
               <<Bare(<<>>, a), Bare(<<>>, b), Bare(<<"debug">>, c), Bare(<<>>, d)>>,
               <<FieldValue(<<>>, b, Other("lit", 17)),
                 FieldValue(<<"debug">>, d, Other("call", 1)),
                 Bare(<<>>, err), Bare(<<"sval">>, f)>>),
      Template(<<>>,
               <<FieldValue(<<>>, description, Other("field", 1)),
                 FieldValue(<<>>, id, Other("field", 2))>>,
               <<Bare(<<"emit::serde">>, work)>>) }

OtherInputs == RejectedInputs \cup TestCases

----------------------------------------------------------------------------
(* expand_tokens                                                            *)

Init ==
    /\ \/ IsBoundedInput(input)
       \/ IsOrderingInput(input)
       \/ input \in OtherInputs
    /\ pc = "parse"
    /\ panic = ""
    /\ extra_field_values = EmptyMap
    /\ hole_index = 1
    /\ field_values = <<>>
    /\ field_bindings = <<>>
    /\ sorted_field_bindings = EmptyMap
    /\ field_index = 0
    /\ output = <<>>

\* mutant: the failure is noted and expansion goes on to the final quote!
PanicContinues(msg) == pc' = "emit" /\ panic' = msg /\ output' = output

\* a panic unwinds expand_tokens: no tokens are returned
Panic(msg) == pc' = "panicked" /\ panic' = msg /\ output' = output

\* `let template = Template::parse2(input).expect("failed to expand template")`
Parse ==
    /\ pc = "parse"
    /\ IF input.ok
         THEN pc' = "collect" /\ UNCHANGED <<panic, output>>
         ELSE Panic("failed to expand template")
    /\ UNCHANGED <<input, extra_field_values, hole_index, field_values,
                   field_bindings, sorted_field_bindings, field_index>>

\* (key, field-value) pairs of after_template_field_values()
KeyedExtras(after) == [i \in 1..Len(after) |-> <<key_name(after[i])[1], after[i]>>]

\* where expand_tokens continues after CollectExtras and after each hole
AfterHole(n, pool) ==
    IF n <= Len(input.holes) THEN "template"
    ELSE IF DOMAIN pool # {} THEN "extras" ELSE "emit"

\* the BTreeMap of the field-values that aren't part of the template
CollectExtras ==
    /\ pc = "collect"
    /\ IF \E i \in 1..Len(input.after) : key_name(input.after[i]) = None
         THEN /\ Panic("expected a string key")
              /\ UNCHANGED extra_field_values
         ELSE LET pool == Collect(EmptyMap, KeyedExtras(input.after)) IN
              /\ extra_field_values' = pool
              /\ pc' = AfterHole(1, pool)
              /\ UNCHANGED <<panic, output>>
    /\ UNCHANGED <<input, hole_index, field_values, field_bindings,
                   sorted_field_bindings, field_index>>

\* `Ident::new(&format!("__tmp{}", field_index), ..)`
TmpIdent(n) == <<"__tmp", n>>

\* mutant: the attributes are not taken out of the field-value
CaptureTokensAttrsLeftIn(fv) == [attrs |-> fv.attrs, capture |-> fv]

\* `#(#attrs)* emit::ct::__private_capture!(#fv)`, fv with its attributes taken
CaptureTokens(fv) == [attrs |-> fv.attrs, capture |-> [fv EXCEPT !.attrs = <<>>]]

\* the closure push_field_value; `next` is where expand_tokens continues
push_field_value(k, fv, next) ==
    LET v == TmpIdent(field_index)
        previous == MapPrevious(sorted_field_bindings, k)
    IN  /\ field_values' = Append(field_values, CaptureTokens(fv))
        /\ field_bindings' = Append(field_bindings, v)
        /\ sorted_field_bindings' = MapInsert(sorted_field_bindings, k, v)
        /\ IF previous # None
             THEN /\ Panic("keys cannot be duplicated")
                  /\ UNCHANGED field_index
             ELSE /\ field_index' = field_index + 1
                  /\ pc' = next
                  /\ UNCHANGED <<panic, output>>

\* mutant: attributes on the hole are not checked
TemplateSideCheckAttrsSkipped(fv, k) ==
    IF fv.expr.kind = "path"
      THEN IF get_ident(fv.expr) # Some(k)
             THEN "the key name and path don't match"
             ELSE ""
      ELSE "keys that exist in the template and extra pairs should only use identifiers"

\* mutant: the hole's own field-value is kept as the source
HoleSourceTemplate(fv, extra) == fv

\* the field-value a hole is captured from: the one outside the template
\* when there is one, else the hole's own
HoleSource(fv, extra) == IF extra # None THEN extra[1] ELSE fv

\* the checks on a hole whose key has a field-value outside the template:
\* the panic message, "" when the hole is a plain identifier
TemplateSideCheck(fv, k) ==
    IF fv.expr.kind = "path"
      THEN IF fv.attrs # <<>>
             THEN "keys that exist in the template and extra pairs should only use attributes on the extra pair"
             ELSE IF get_ident(fv.expr) # Some(k)
                    THEN "the key name and path don't match"
                    ELSE ""
      ELSE "keys that exist in the template and extra pairs should only use identifiers"

\* one iteration of `for fv in template.template_field_values()`
TemplateFieldValue ==
    /\ pc = "template"
    /\ hole_index <= Len(input.holes)
    /\ LET fv == input.holes[hole_index]
           key == key_name(fv)
       IN  IF key = None
             THEN /\ Panic("expected a string key")
                  /\ UNCHANGED <<extra_field_values, hole_index, field_values,
                                 field_bindings, sorted_field_bindings, field_index>>
             ELSE LET k == key[1]
                      extra == MapRemoved(extra_field_values, k)
                      pool == MapRemove(extra_field_values, k)
                  IN  /\ extra_field_values' = pool
                      /\ IF extra # None /\ TemplateSideCheck(fv, k) # ""
                           THEN /\ Panic(TemplateSideCheck(fv, k))
                                /\ UNCHANGED <<hole_index, field_values, field_bindings,
                                               sorted_field_bindings, field_index>>
                           ELSE /\ hole_index' = hole_index + 1
                                /\ push_field_value(k, HoleSource(fv, extra),
                                                    AfterHole(hole_index + 1, pool))
    /\ UNCHANGED input

\* one iteration of `for (k, fv) in extra_field_values`
RemainingFieldValue ==
    /\ pc = "extras"
    /\ DOMAIN extra_field_values # {}
    /\ LET k == FirstKey(DOMAIN extra_field_values)
           pool == MapRemove(extra_field_values, k)
       IN  /\ extra_field_values' = pool
           /\ push_field_value(k, extra_field_values[k],
                               IF DOMAIN pool # {} THEN "extras" ELSE "emit")
    /\ UNCHANGED <<input, hole_index>>

\* the log target expression
RECURSIVE target_tokens(_)
target_tokens(before) ==
    IF before = <<>> THEN None
    ELSE IF key_name(Head(before)) = Some(target) THEN Some(Head(before).expr)
    ELSE target_tokens(Tail(before))

\* mutant: the record's slots are filled in rendering order
ExpansionTokensRenderingOrder ==
    [ match_values |-> field_values,
      match_bindings |-> field_bindings,
      sorted_key_values |-> field_bindings,
      forward_target |-> target_tokens(input.before),
      forward_keys |-> MapKeys(sorted_field_bindings),
      forward_accessors |-> [i \in 1..Cardinality(DOMAIN sorted_field_bindings) |-> i - 1] ]

\* the tokens of the final quote!
ExpansionTokens ==
    [ match_values |-> field_values,
      match_bindings |-> field_bindings,
      sorted_key_values |-> MapValues(sorted_field_bindings),
      forward_target |-> target_tokens(input.before),
      forward_keys |-> MapKeys(sorted_field_bindings),
      forward_accessors |-> [i \in 1..Cardinality(DOMAIN sorted_field_bindings) |-> i - 1] ]

Emit ==
    /\ pc = "emit"
    /\ output' = Append(output, ExpansionTokens)
    /\ pc' = "done"
    /\ UNCHANGED <<input, panic, extra_field_values, hole_index, field_values,
                   field_bindings, sorted_field_bindings, field_index>>

Next ==
    \/ Parse
    \/ CollectExtras
    \/ TemplateFieldValue
    \/ RemainingFieldValue
    \/ Emit

Spec == Init /\ [][Next]_vars

----------------------------------------------------------------------------
(* Vocabulary of the properties, in terms of the input and the result.      *)

Holes == input.holes
Extras == input.after
NumHoles == Len(Holes)
HoleName(i) == Holes[i].member
HoleNames == {HoleName(i) : i \in 1..NumHoles}
ExtraNames == {Extras[j].member : j \in 1..Len(Extras)}
ExtrasNamed(k) == {j \in 1..Len(Extras) : Extras[j].member = k}

\* `{k}`: the path k alone, no attributes
IsBareHole(i) == Holes[i].attrs = <<>> /\ Holes[i].expr = Path(<<HoleName(i)>>)
\* `{k}` or `{#[attr] k}`: no value expression of its own
HasNoInlineValue(i) == Holes[i].expr = Path(<<HoleName(i)>>)
FirstOccurrence(i) == \A j \in 1..(i - 1) : HoleName(j) # HoleName(i)
DistinctHoleNames(n) == \A i, j \in 1..n : i # j => HoleName(i) # HoleName(j)
HasDuplicateExtras ==
    \E i, j \in 1..Len(Extras) : i # j /\ Extras[i].member = Extras[j].member

\* the capture a field-value is expected to produce: its attributes lifted
\* in front, its key and value expression inside
ExpectedCapture(fv) ==
    [attrs |-> fv.attrs,
     capture |-> [attrs |-> <<>>, member |-> fv.member, expr |-> fv.expr]]

FieldName(p) == field_values[p].capture.member
NumFields == Len(field_values)

DuplicateKeyError == "keys cannot be duplicated"
ConflictErrors ==
    {"keys that exist in the template and extra pairs should only use attributes on the extra pair",
     "the key name and path don't match",
     "keys that exist in the template and extra pairs should only use identifiers"}

Succeeded == pc = "done"
Failed == pc = "panicked"

\* the run failed while handling hole i (not before the holes were reached)
FailedAtHole(i) ==
    /\ Failed
    /\ input.ok
    /\ \A j \in 1..Len(Extras) : Extras[j].member # Unnamed
    /\ \/ panic # DuplicateKeyError /\ hole_index = i /\ NumFields = i - 1
       \/ panic = DuplicateKeyError /\ hole_index = i + 1 /\ NumFields = i

----------------------------------------------------------------------------
\* C1: a bare hole {k} whose key still has an entry among the extras is
\* resolved from that entry: handling the hole does not fail, the field at
\* the hole's rendering position carries the entry's value expression and the
\* entry's attributes, and the entry is not appended again after the holes.
\* With N distinct bare holes and exactly those N names as extras, expansion
\* succeeds and the rendering-order fields are the extras, in hole order.
C1_BareHoleTakesExtra ==
    /\ \A i \in 1..NumHoles :
        (input.ok /\ IsBareHole(i) /\ HoleName(i) \in ExtraNames /\ FirstOccurrence(i)) =>
            /\ ~FailedAtHole(i)
            /\ i <= NumFields =>
                 \E j \in ExtrasNamed(HoleName(i)) :
                     field_values[i] = ExpectedCapture(Extras[j])
            /\ \A p \in (NumHoles + 1)..NumFields : FieldName(p) # HoleName(i)
    /\ ( /\ input.ok
         /\ \A i \in 1..NumHoles : IsBareHole(i)
         /\ DistinctHoleNames(NumHoles)
         /\ Len(Extras) = NumHoles
         /\ ExtraNames = HoleNames ) =>
            /\ ~Failed
            /\ Succeeded =>
                 /\ Len(output[1].match_values) = NumHoles
                 /\ \A i \in 1..NumHoles : \A j \in ExtrasNamed(HoleName(i)) :
                        output[1].match_values[i] = ExpectedCapture(Extras[j])

C1_Witness ==
    /\ Succeeded
    /\ NumHoles = 2
    /\ \A i \in 1..NumHoles : IsBareHole(i)
    /\ ExtraNames = HoleNames
    /\ HoleName(1) = b /\ HoleName(2) = a
    /\ output[1].match_values[1].capture.expr.kind = "lit"
    /\ output[1].match_values[2].attrs = <<"debug">>

----------------------------------------------------------------------------
\* a field-value after the template that no hole names
Unreferenced(j) == Extras[j].member \notin HoleNames

\* C2: on every successful expansion the rendering-order fields are one field
\* per hole, in template order, followed by every field-value after the
\* template that no hole references, and by nothing else.
C2_HolesThenEveryUnreferencedExtra ==
    Succeeded =>
        /\ NumFields >= NumHoles
        /\ \A i \in 1..NumHoles : FieldName(i) = HoleName(i)
        /\ \A p \in (NumHoles + 1)..NumFields :
              \E j \in 1..Len(Extras) :
                  Unreferenced(j) /\ field_values[p] = ExpectedCapture(Extras[j])
        /\ \A j \in 1..Len(Extras) :
              Unreferenced(j) =>
                  \E p \in (NumHoles + 1)..NumFields :
                      field_values[p] = ExpectedCapture(Extras[j])

\* the rendering position of the field named k
PositionOf(k) == CHOOSE p \in 1..NumFields : FieldName(p) = k

\* C3 as stated: unreferenced field-values keep the order they were supplied in
C3_AppendedInSupplyOrder ==
    (Succeeded /\ ~HasDuplicateExtras) =>
        \A i, j \in 1..Len(Extras) :
            (i < j /\ Unreferenced(i) /\ Unreferenced(j)) =>
                PositionOf(Extras[i].member) < PositionOf(Extras[j].member)

\* C3 as amended: the field-values still in the pool after the holes are
\* appended in ascending lexicographic order of their keys, whatever order
\* they were supplied in; each key left in the pool is appended once.
C3_AppendedInKeyOrder ==
    /\ \A p, q \in (NumHoles + 1)..NumFields :
          p < q => StrLess(FieldName(p), FieldName(q))
    /\ \A p \in (NumHoles + 1)..NumFields :
          FieldName(p) \in ExtraNames \ HoleNames
    /\ Succeeded =>
          {FieldName(p) : p \in (NumHoles + 1)..NumFields} = ExtraNames \ HoleNames

C3_Witness ==
    /\ Succeeded
    /\ NumHoles = 0
    /\ Len(Extras) = 3
    /\ Extras[1].member = b /\ Extras[2].member = ab /\ Extras[3].member = a
    /\ NumFields = 3
    /\ FieldName(1) = a /\ FieldName(2) = ab /\ FieldName(3) = b

----------------------------------------------------------------------------
\* the sorted position (from 0) of rendering position p: the rank of its key
SortedPosition(p) == Cardinality({q \in 1..NumFields : StrLess(FieldName(q), FieldName(p))})

ExampleTemplate ==
    Template(<<>>,
             <<FieldValue(<<>>, b, Other("lit", 17)), Bare(<<>>, a),
               Bare(<<"with_debug">>, c), FieldValue(<<>>, d, Other("call", 1))>>,
             <<>>)

\* C4: on every successful expansion of n fields, rendering position p maps to
\* the rank of its key; the map is a bijection on 0..n-1; the sorted slot at
\* that rank holds the binding __tmp<p>; the forwarded keys are strictly
\* ascending; the i-th forwarded value is the i-th sorted slot.  For the
\* template "Text and {b: 17} and {a} and {#[attr] c} and {d: expr}" the
\* rendering order is b, a, c, d and the sorted order a, b, c, d.
C4_IndexMapIsRankBijection ==
    Succeeded =>
        LET out == output[1]
            n == NumFields
        IN  /\ out.match_values = field_values
            /\ Len(out.match_bindings) = n
            /\ Len(out.sorted_key_values) = n
            /\ Len(out.forward_keys) = n
            /\ Len(out.forward_accessors) = n
            /\ {SortedPosition(p) : p \in 1..n} = 0..(n - 1)
            /\ \A p, q \in 1..n : SortedPosition(p) = SortedPosition(q) => p = q
            /\ \A p \in 1..n :
                  /\ out.match_bindings[p] = <<"__tmp", p - 1>>
                  /\ out.sorted_key_values[SortedPosition(p) + 1] = out.match_bindings[p]
                  /\ out.forward_keys[SortedPosition(p) + 1] = FieldName(p)
            /\ \A i \in 1..(n - 1) : StrLess(out.forward_keys[i], out.forward_keys[i + 1])
            /\ \A i \in 1..n : out.forward_accessors[i] = i - 1
            /\ input = ExampleTemplate =>
                  /\ [p \in 1..n |-> FieldName(p)] = <<b, a, c, d>>
                  /\ out.forward_keys = <<a, b, c, d>>
                  /\ SortedPosition(1) = 1 /\ SortedPosition(2) = 0
                  /\ out.sorted_key_values =
                        <<<<"__tmp", 1>>, <<"__tmp", 0>>, <<"__tmp", 2>>, <<"__tmp", 3>>>>

C4_Witness ==
    /\ Succeeded
    /\ input = ExampleTemplate
    /\ output[1].forward_keys = <<a, b, c, d>>

----------------------------------------------------------------------------
\* C5: whenever two field-values after the template have the same key, no
\* expansion is produced (the run ends in the duplicate-key panic).
C5_DuplicateExtrasFail ==
    HasDuplicateExtras => (output = <<>> /\ ~Succeeded)

HasDuplicateHoles == \E i, j \in 1..NumHoles : i # j /\ HoleName(i) = HoleName(j)

\* C6: whenever two holes have the same key the run never gets past the
\* holes and produces no expansion, whether or not a field-value after the
\* template has that key; a successful expansion has no two fields of one key.
C6_DuplicateHolesFail ==
    /\ HasDuplicateHoles =>
          /\ pc \in {"parse", "collect", "template", "panicked"}
          /\ output = <<>>
    /\ Succeeded =>
          /\ \A p, q \in 1..NumFields : FieldName(p) = FieldName(q) => p = q
          /\ \A i, j \in 1..Len(output[1].forward_keys) :
                output[1].forward_keys[i] = output[1].forward_keys[j] => i = j

C6_Witness ==
    /\ Failed
    /\ panic = DuplicateKeyError
    /\ NumHoles = 2
    /\ HoleName(1) = HoleName(2)
    /\ IsBareHole(1) /\ IsBareHole(2)
    /\ HoleName(1) \in ExtraNames
    /\ NumFields = 2
    /\ field_values[1].capture.expr.kind = "lit"

----------------------------------------------------------------------------
\* C7 as stated: a hole with no value expression of its own and no
\* field-value of its key after the template makes the expansion fail.
C7_UnresolvedHoleFails ==
    (\E i \in 1..NumHoles : HasNoInlineValue(i) /\ HoleName(i) \notin ExtraNames) =>
        output = <<>>

TextAndA == Template(<<>>, <<Bare(<<>>, a)>>, <<>>)

\* C7 as amended: such a hole is resolved from the hole itself: its field
\* captures the identifier of the hole's own key, under the hole's own
\* attributes; the run fails at that hole only by the duplicate-key panic,
\* when an earlier hole has the same key.  "Text and {a}" with nothing after
\* the template expands successfully to the single field a.
C7_HoleWithoutExtraCapturesItself ==
    /\ \A i \in 1..NumHoles :
          (input.ok /\ HasNoInlineValue(i) /\ HoleName(i) \notin ExtraNames) =>
              /\ i <= NumFields => field_values[i] = ExpectedCapture(Holes[i])
              /\ FailedAtHole(i) =>
                    panic = DuplicateKeyError /\ ~FirstOccurrence(i)
    /\ input = TextAndA =>
          /\ ~Failed
          /\ Succeeded =>
                /\ output[1].match_values = <<ExpectedCapture(Bare(<<>>, a))>>
                /\ output[1].forward_keys = <<a>>

C7_Witness ==
    /\ Succeeded
    /\ input = TextAndA
    /\ output[1].forward_keys = <<a>>

----------------------------------------------------------------------------
\* C8: a hole that is not a bare reference to its key, while a field-value
\* of that key is given after the template, makes the expansion fail: the run
\* never gets past the holes and produces nothing; when the hole is reached
\* with the field-value still in the pool, the run stops at that hole with
\* the conflict panic, whatever the two values are.
C8_ConflictingHoleFails ==
    \A i \in 1..NumHoles :
        (input.ok /\ ~IsBareHole(i) /\ HoleName(i) \in ExtraNames) =>
            /\ pc \in {"parse", "collect", "template", "panicked"}
            /\ output = <<>>
            /\ FirstOccurrence(i) =>
                  /\ hole_index <= i
                  /\ NumFields < i
                  /\ FailedAtHole(i) => panic \in ConflictErrors

C8_Witness ==
    /\ Failed
    /\ panic \in ConflictErrors
    /\ NumHoles = 2
    /\ hole_index = 2
    /\ NumFields = 1
    /\ Holes[2].expr = Other("lit", 42)
    /\ \E j \in 1..Len(Extras) :
          Extras[j].member = HoleName(2) /\ Extras[j].expr = Other("lit", 42)

----------------------------------------------------------------------------
\* the keys a complete record holds
ResolvedNames == HoleNames \cup ExtraNames

\* C9: at most one expansion (one forward) is produced per run, and only
\* when every stage has succeeded: none while the run is under way, none in
\* a run that panicked, and the one that is produced holds every field.
C9_ForwardOnlyAfterSuccess ==
    /\ Len(output) <= 1
    /\ Failed => output = <<>> /\ panic # ""
    /\ output # <<>> =>
          /\ Succeeded
          /\ panic = ""
          /\ input.ok
          /\ hole_index = NumHoles + 1
          /\ DOMAIN extra_field_values = {}
          /\ {output[1].forward_keys[i] : i \in 1..Len(output[1].forward_keys)}
                = ResolvedNames
          /\ Len(output[1].match_values) = Cardinality(ResolvedNames)
          /\ Len(output[1].sorted_key_values) = Cardinality(ResolvedNames)

C9_Witness ==
    /\ Failed
    /\ panic = DuplicateKeyError
    /\ NumFields = 3
    /\ output = <<>>

----------------------------------------------------------------------------
\* C10: the target forwarded is Some(t) exactly when a target t is given
\* before the template, None when nothing is given before the template.
C10_TargetIsWhatPrecedesTemplate ==
    Succeeded =>
        output[1].forward_target =
            IF input.before = <<>> THEN None ELSE Some(input.before[1].expr)

====
